---------------------------- MODULE Spec2Model ----------------------------
(***************************************************************************)
(* Model of src/src/utils.rs of arp-scan-rs: default interface selection,  *)
(* the interface listing, the network size computation, the result table   *)
(* and the JSON / YAML / CSV exports.                                      *)
(*                                                                         *)
(* Every operation of the file is a function of its arguments.  The state  *)
(* holds the arguments a caller passes and, per operation, what the        *)
(* operation produced (NotRun before it ran).  One action per operation.   *)
(*                                                                         *)
(* Conventions                                                             *)
(*   Option<T>   None is <<>>, Some(v) is <<v>>                            *)
(*   String      a sequence of characters, each a one-character string;    *)
(*               the token "U+00E9" stands for one two-byte character      *)
(*   Ipv4Addr    its four octets <<a, b, c, d>>                            *)
(*   MacAddr     its six octets                                            *)
(*   u128        eight 16-bit limbs, least significant first               *)
(***************************************************************************)
EXTENDS Integers, Sequences, FiniteSets, TLC

VARIABLES
    interfaces,         \* &[NetworkInterface] handed to the interface operations
    ip_networks,        \* &[&IpNetwork] handed to compute_network_size
    response_summary,   \* ResponseSummary handed to display / export
    target_details,     \* Vec<TargetDetails> handed to display / export
    options,            \* &ScanOptions handed to display_scan_results
    shown,              \* what show_interfaces printed
    default_interface,  \* what select_default_interface returned
    network_size,       \* how compute_network_size ended
    table,              \* what display_scan_results printed
    json,               \* what export_to_json returned
    yaml,               \* what export_to_yaml returned
    csv                 \* what export_to_csv returned

vars == <<interfaces, ip_networks, response_summary, target_details, options,
          shown, default_interface, network_size, table, json, yaml, csv>>

inputs == <<interfaces, ip_networks, response_summary, target_details, options>>

(***************************************************************************)
(* Bounds of the model.                                                    *)
(***************************************************************************)
MaxIfaces == 2      \* interfaces in a list
MaxNets == 3        \* networks in a list
MaxTargets == 2     \* targets in a list
MaxCount == 2       \* largest packet_count / arp_count of a summary
MaxExtra == 5       \* characters by which the longest text exceeds the minimum width

(***************************************************************************)
(* Option and outcome values.                                              *)
(***************************************************************************)
None == <<>>
Some(v) == <<v>>
IsSome(o) == o /= <<>>
Unwrap(o) == o[1]

NotRun == [kind |-> "not_run"]
Returned(v) == [kind |-> "returned", value |-> v]
Exited(code, diagnostic) == [kind |-> "exited", status |-> code, stderr |-> diagnostic]

(***************************************************************************)
(* Strings.                                                                *)
(***************************************************************************)
Rep(c, n) == [i \in 1..n |-> c]

\* str::len(): the length in bytes of the UTF-8 encoding.
Utf8Len(c) == IF c = "U+00E9" THEN 2 ELSE 1

RECURSIVE ByteLen(_)
ByteLen(s) == IF s = <<>> THEN 0 ELSE Utf8Len(Head(s)) + ByteLen(Tail(s))

\* s.chars().count(), what the formatter's width counts.
CharCount(s) == Len(s)

\* format!("{: <w$}", s): left aligned, filled with spaces up to w characters,
\* never cut.
PadRight(s, w) == IF CharCount(s) >= w THEN s ELSE s \o Rep(" ", w - CharCount(s))

\* format!("{:-<w$}", ""): w dashes.
DashFill(w) == PadRight(<<>>, 0) \o Rep("-", w)

DigitChar(d) == <<"0", "1", "2", "3", "4", "5", "6", "7", "8", "9",
                  "a", "b", "c", "d", "e", "f">>[d + 1]

\* Display of an unsigned integer: decimal, no leading zero.
RECURSIVE DecimalText(_)
DecimalText(n) == IF n < 10 THEN <<DigitChar(n)>>
                  ELSE DecimalText(n \div 10) \o <<DigitChar(n % 10)>>

\* format!("{:02x}", octet)
Hex2(n) == <<DigitChar(n \div 16), DigitChar(n % 16)>>

\* Display of Ipv4Addr: dotted decimal.
Ipv4Text(ip) == DecimalText(ip[1]) \o <<".">> \o DecimalText(ip[2]) \o <<".">>
                \o DecimalText(ip[3]) \o <<".">> \o DecimalText(ip[4])

\* Display of MacAddr: six two-digit lower-case hex groups joined by ':'.
MacText(mac) == Hex2(mac[1]) \o <<":">> \o Hex2(mac[2]) \o <<":">> \o Hex2(mac[3])
                \o <<":">> \o Hex2(mac[4]) \o <<":">> \o Hex2(mac[5])
                \o <<":">> \o Hex2(mac[6])

(***************************************************************************)
(* Interfaces.                                                             *)
(***************************************************************************)
V4Net(p) == [family |-> "V4", prefix |-> p]
V6Net(p) == [family |-> "V6", prefix |-> p]

is_ipv4(ip) == ip.family = "V4"
is_up(interface) == interface.up
is_loopback(interface) == interface.loopback

\* The i-th interface of a list is named eth<i>.
IfaceName(i) == <<"eth", i>>
IfaceMacs == {None, Some(<<0, 17, 34, 51, 68, 85>>)}
\* Address lists of one interface: none, IPv4 only, IPv6 only, and both in
\* either order.
IfaceIps == {<<>>, <<V4Net(24)>>, <<V6Net(64)>>, <<V6Net(64), V4Net(24)>>,
             <<V4Net(24), V6Net(64)>>, <<V6Net(64), V6Net(64)>>}

IfaceKinds == [mac : IfaceMacs, ips : IfaceIps, up : BOOLEAN, loopback : BOOLEAN]

\* An interface list as the operating system reports it; names are unique.
Named(f) == [i \in DOMAIN f |-> [name |-> IfaceName(i), mac |-> f[i].mac, ips |-> f[i].ips,
                                  up |-> f[i].up, loopback |-> f[i].loopback]]

\* Mutant of is_default_candidate: the test for an IPv4 address is left out.
is_default_candidate_without_ipv4_test(interface) ==
    IF interface.mac = None THEN FALSE
    ELSE IF interface.ips = <<>> \/ ~is_up(interface) \/ is_loopback(interface) THEN FALSE
    ELSE TRUE

\* The closure given to find in select_default_interface.
is_default_candidate(interface) ==
    IF interface.mac = None THEN FALSE
    ELSE IF interface.ips = <<>> \/ ~is_up(interface) \/ is_loopback(interface) THEN FALSE
    ELSE IF ~(\E k \in 1..Len(interface.ips) : is_ipv4(interface.ips[k])) THEN FALSE
    ELSE TRUE

\* Iterator::find: the first element, from position i on, the closure accepts.
RECURSIVE find_default(_, _)
find_default(list, i) ==
    IF i > Len(list) THEN None
    ELSE IF is_default_candidate(list[i]) THEN Some(list[i])
    ELSE find_default(list, i + 1)

select_default_interface(list) == find_default(list, 1)

\* Mutant of is_ready: the loopback test is not negated.
is_ready_loopback_not_negated(interface) ==
    is_up(interface) /\ is_loopback(interface) /\ interface.ips /= <<>>

\* The readiness test of show_interfaces.
is_ready(interface) ==
    is_up(interface) /\ ~is_loopback(interface) /\ interface.ips /= <<>>

\* The row show_interfaces prints for one interface.
interface_row(interface) ==
    [name |-> interface.name,
     up_text |-> IF is_up(interface) THEN "UP" ELSE "DOWN",   \* colouring left out
     mac_text |-> IF IsSome(interface.mac) THEN MacText(Unwrap(interface.mac))
                  ELSE "No MAC address",
     first_ip |-> IF Len(interface.ips) >= 1 THEN Some(interface.ips[1]) ELSE None]

\* The loop of show_interfaces from position i on, with the counters so far.
RECURSIVE show_loop(_, _, _)
show_loop(list, i, acc) ==
    IF i > Len(list) THEN acc
    ELSE show_loop(list, i + 1,
            [rows |-> Append(acc.rows, interface_row(list[i])),
             interface_count |-> acc.interface_count + 1,
             ready_count |-> IF is_ready(list[i]) THEN acc.ready_count + 1
                             ELSE acc.ready_count])

show_interfaces_output(list) ==
    LET counted == show_loop(list, 1, [rows |-> <<>>, interface_count |-> 0, ready_count |-> 0])
        chosen == select_default_interface(list)
    IN  [rows |-> counted.rows,
         interface_count |-> counted.interface_count,
         ready_count |-> counted.ready_count,
         default_line |-> IF IsSome(chosen) THEN Some(Unwrap(chosen).name) ELSE None]

show_interfaces ==
    /\ shown = NotRun
    /\ shown' = Returned(show_interfaces_output(interfaces))
    /\ UNCHANGED <<inputs, default_interface, network_size, table, json, yaml, csv>>

select_default ==
    /\ default_interface = NotRun
    /\ default_interface' = Returned(select_default_interface(interfaces))
    /\ UNCHANGED <<inputs, shown, network_size, table, json, yaml, csv>>

(***************************************************************************)
(* Network sizes.  A u128 is eight 16-bit limbs, least significant first;  *)
(* a u32 is two.                                                           *)
(***************************************************************************)
LimbBase == 2^16
U128Limbs == 128 \div 16
U32Limbs == 32 \div 16

\* Ipv4Network::size(): 2^(32 - prefix) as a u32, for a prefix of 1..32.  (What
\* size() gives for a /0 depends on the version of the ipnetwork crate; such a
\* network is not among the inputs.)
Ipv4Size(prefix) ==
    [k \in 1..U32Limbs |-> IF k = ((32 - prefix) \div 16) + 1
                           THEN 2^((32 - prefix) % 16) ELSE 0]

\* u128::from(u32): zero extension.
IntoU128(limbs) == [k \in 1..U128Limbs |-> IF k <= Len(limbs) THEN limbs[k] ELSE 0]

U128Zero == [k \in 1..U128Limbs |-> 0]

\* The carry into limb k of a + b.
RECURSIVE Carry(_, _, _)
Carry(a, b, k) == IF k = 1 THEN 0 ELSE (a[k - 1] + b[k - 1] + Carry(a, b, k - 1)) \div LimbBase

\* a + b on n-limb unsigned integers: the sum modulo 2^(16 n), and whether it
\* overflowed.
AddLimbs(a, b, n) ==
    [sum |-> [k \in 1..n |-> (a[k] + b[k] + Carry(a, b, k)) % LimbBase],
     overflow |-> Carry(a, b, n + 1) = 1]

\* Mutant of U128Add: the total is kept in 32 bits.
U128Add_in_32_bits(a, b) ==
    [sum |-> IntoU128(AddLimbs(a, b, U32Limbs).sum), overflow |-> FALSE]

\* total_size + network_size, on u128.
U128Add(a, b) == AddLimbs(a, b, U128Limbs)

IPV6_DIAGNOSTIC == "IPv6 networks are not supported by the ARP protocol"
OVERFLOW_PANIC == "attempt to add with overflow"

\* Mutant of fold_step: an IPv6 network counts for nothing instead of ending
\* the process.
fold_step_skipping_ipv6(total_size, ip_network) ==
    IF ip_network.family = "V4"
    THEN {Returned(U128Add(total_size, IntoU128(Ipv4Size(ip_network.prefix))).sum)}
    ELSE {Returned(total_size)}

\* The closure given to fold in compute_network_size: the new total, or the
\* end of the process.  An overflowing addition panics in a build with overflow
\* checks and wraps in a build without.
fold_step(total_size, ip_network) ==
    IF ip_network.family = "V4"
    THEN LET added == U128Add(total_size, IntoU128(Ipv4Size(ip_network.prefix)))
         IN  IF added.overflow
             THEN {Exited(101, OVERFLOW_PANIC), Returned(added.sum)}
             ELSE {Returned(added.sum)}
    ELSE {Exited(1, IPV6_DIAGNOSTIC)}

\* Iterator::fold from position i on: the outcomes the call can have.
RECURSIVE fold_networks(_, _, _)
fold_networks(list, i, total_size) ==
    IF i > Len(list) THEN {Returned(total_size)}
    ELSE UNION { IF step.kind = "exited" THEN {step}
                 ELSE fold_networks(list, i + 1, step.value) :
                 step \in fold_step(total_size, list[i]) }

compute_network_size_outcomes(list) == fold_networks(list, 1, U128Zero)

compute_network_size ==
    /\ network_size = NotRun
    /\ network_size' \in compute_network_size_outcomes(ip_networks)
    /\ UNCHANGED <<inputs, shown, default_interface, table, json, yaml, csv>>

\* Prefix lengths of the IPv4 networks of the inputs.
PrefixPool == {1, 8, 16, 24, 30, 32}
NetworkPool == {V4Net(p) : p \in PrefixPool} \cup {V6Net(64)}

(***************************************************************************)
(* Scan results: the table.                                                *)
(***************************************************************************)
HOSTNAME_MIN_WIDTH == 15
VENDOR_MIN_WIDTH == 15
IPV4_WIDTH == 15

\* Ord of Ipv4Addr: the octets, compared from the first.
RECURSIVE OctetsLess(_, _, _)
OctetsLess(a, b, k) ==
    IF k > Len(a) THEN FALSE
    ELSE IF a[k] /= b[k] THEN a[k] < b[k]
    ELSE OctetsLess(a, b, k + 1)

Ipv4Less(a, b) == OctetsLess(a, b, 1)

\* Mutant of insert_sorted: an item goes before the items of equal address.
RECURSIVE insert_sorted_before_equal(_, _)
insert_sorted_before_equal(sorted, item) ==
    IF sorted = <<>> THEN <<item>>
    ELSE IF ~Ipv4Less(Head(sorted).ipv4, item.ipv4) THEN <<item>> \o sorted
    ELSE <<Head(sorted)>> \o insert_sorted_before_equal(Tail(sorted), item)

\* One item put in its place in a sorted list: after every item whose address
\* is not greater.
RECURSIVE insert_sorted(_, _)
insert_sorted(sorted, item) ==
    IF sorted = <<>> THEN <<item>>
    ELSE IF Ipv4Less(item.ipv4, Head(sorted).ipv4) THEN <<item>> \o sorted
    ELSE <<Head(sorted)>> \o insert_sorted(Tail(sorted), item)

\* target_details.sort_by_key(|item| item.ipv4): a stable sort, so its result
\* is that of inserting the items one by one in input order.
RECURSIVE sort_from(_, _, _)
sort_from(list, i, sorted) ==
    IF i > Len(list) THEN sorted
    ELSE sort_from(list, i + 1, insert_sorted(sorted, list[i]))

sort_by_key(list) == sort_from(list, 1, <<>>)

\* The first loop of display_scan_results: the two column widths.
RECURSIVE width_loop(_, _, _)
width_loop(list, i, widths) ==
    IF i > Len(list) THEN widths
    ELSE LET detail == list[i]
             h == IF IsSome(detail.hostname)
                     /\ ByteLen(Unwrap(detail.hostname)) > widths.hostname_len
                  THEN ByteLen(Unwrap(detail.hostname)) ELSE widths.hostname_len
             v == IF IsSome(detail.vendor)
                     /\ ByteLen(Unwrap(detail.vendor)) > widths.vendor_len
                  THEN ByteLen(Unwrap(detail.vendor)) ELSE widths.vendor_len
         IN  width_loop(list, i + 1, [hostname_len |-> h, vendor_len |-> v])

column_widths(list) ==
    width_loop(list, 1, [hostname_len |-> HOSTNAME_MIN_WIDTH, vendor_len |-> VENDOR_MIN_WIDTH])

TEXT_IPV4 == <<"I", "P", "v", "4">>
TEXT_MAC == <<"M", "A", "C">>
TEXT_HOSTNAME == <<"H", "o", "s", "t", "n", "a", "m", "e">>
TEXT_VENDOR == <<"V", "e", "n", "d", "o", "r">>
TEXT_DISABLED == <<"(", "d", "i", "s", "a", "b", "l", "e", "d", ")">>

\* Mutant of table_header: the header is laid out with the minimum widths.
table_header_with_minimum_widths(widths) ==
    [ipv4 |-> PadRight(TEXT_IPV4, 15),
     mac |-> PadRight(TEXT_MAC, 17),
     hostname |-> PadRight(TEXT_HOSTNAME, HOSTNAME_MIN_WIDTH),
     vendor |-> PadRight(TEXT_VENDOR, VENDOR_MIN_WIDTH)]

\* The header row; the IPv4 and MAC titles are literals of 15 and 17 characters.
table_header(widths) ==
    [ipv4 |-> PadRight(TEXT_IPV4, 15),
     mac |-> PadRight(TEXT_MAC, 17),
     hostname |-> PadRight(TEXT_HOSTNAME, widths.hostname_len),
     vendor |-> PadRight(TEXT_VENDOR, widths.vendor_len)]

\* The separator row.
table_separator(widths) ==
    [ipv4 |-> Rep("-", 15),
     mac |-> Rep("-", 17),
     hostname |-> DashFill(widths.hostname_len),
     vendor |-> DashFill(widths.vendor_len)]

\* Mutant of hostname_text: the placeholder is shown when resolution is on.
hostname_text_placeholder_inverted(detail, opts) ==
    IF IsSome(detail.hostname) THEN Unwrap(detail.hostname)
    ELSE IF opts.resolve_hostname THEN TEXT_DISABLED
    ELSE <<>>

\* The text of the hostname cell.
hostname_text(detail, opts) ==
    IF IsSome(detail.hostname) THEN Unwrap(detail.hostname)
    ELSE IF ~opts.resolve_hostname THEN TEXT_DISABLED
    ELSE <<>>

\* The text of the vendor cell.
vendor_text(detail) ==
    IF IsSome(detail.vendor) THEN Unwrap(detail.vendor) ELSE <<>>

\* The row of one target.  Display of MacAddr writes its 17 characters
\* whatever width is asked for.
table_row(detail, opts, widths) ==
    [ipv4 |-> PadRight(Ipv4Text(detail.ipv4), IPV4_WIDTH),
     mac |-> MacText(detail.mac),
     hostname |-> PadRight(hostname_text(detail, opts), widths.hostname_len),
     vendor |-> PadRight(vendor_text(detail), widths.vendor_len)]

\* The host count phrase (the red colouring of the first form is left out).
hosts_phrase(target_count) ==
    CASE target_count = 0 -> "no hosts found"
      [] target_count = 1 -> "1 host found"
      [] OTHER -> ToString(target_count) \o " hosts found"

\* Mutant of packets_phrase: the singular form is used up to 2.
packets_phrase_singular_up_to_two(packet_count) ==
    CASE packet_count = 0 -> "No packets received, "
      [] packet_count <= 2 -> "1 packet received, "
      [] OTHER -> ToString(packet_count) \o " packets received, "

\* The packet count phrase.
packets_phrase(packet_count) ==
    CASE packet_count = 0 -> "No packets received, "
      [] packet_count = 1 -> "1 packet received, "
      [] OTHER -> ToString(packet_count) \o " packets received, "

\* The ARP packet count phrase.
arp_phrase(arp_count) ==
    CASE arp_count = 0 -> "no ARP packets filtered"
      [] arp_count = 1 -> "1 ARP packet filtered"
      [] OTHER -> ToString(arp_count) \o " ARP packets filtered"

\* " in {:.3} seconds" of duration_ms / 1000 as f32; exact for the durations
\* of the inputs, which an f32 holds exactly.
duration_phrase(duration_ms) ==
    LET millis == duration_ms % 1000
    IN  " in " \o ToString(duration_ms \div 1000) \o "."
        \o (IF millis < 10 THEN "00" ELSE IF millis < 100 THEN "0" ELSE "")
        \o ToString(millis) \o " seconds"

\* What display_scan_results prints.
display_scan_results_output(summary, details, opts) ==
    LET sorted == sort_by_key(details)
        widths == column_widths(sorted)
    IN  [header |-> IF sorted /= <<>> THEN Some(table_header(widths)) ELSE None,
         separator |-> IF sorted /= <<>> THEN Some(table_separator(widths)) ELSE None,
         rows |-> [i \in 1..Len(sorted) |-> table_row(sorted[i], opts, widths)],
         hosts |-> hosts_phrase(Len(sorted)),
         duration |-> duration_phrase(summary.duration_ms),
         packets |-> packets_phrase(summary.packet_count),
         arp |-> arp_phrase(summary.arp_count)]

display_scan_results ==
    /\ table = NotRun
    /\ table' = Returned(display_scan_results_output(response_summary, target_details, options))
    /\ UNCHANGED <<inputs, shown, default_interface, network_size, json, yaml, csv>>

(***************************************************************************)
(* Scan results: the exports.                                              *)
(***************************************************************************)
\* Mutant of serializable_item: the vendor is written in the hostname field.
serializable_item_vendor_as_hostname(detail) ==
    [ipv4 |-> Ipv4Text(detail.ipv4),
     mac |-> MacText(detail.mac),
     hostname |-> IF IsSome(detail.vendor) THEN Unwrap(detail.vendor) ELSE <<>>,
     vendor |-> IF IsSome(detail.vendor) THEN Unwrap(detail.vendor) ELSE <<>>]

\* The closure given to map in get_serializable_result.
serializable_item(detail) ==
    [ipv4 |-> Ipv4Text(detail.ipv4),
     mac |-> MacText(detail.mac),
     hostname |-> IF IsSome(detail.hostname) THEN Unwrap(detail.hostname) ELSE <<>>,
     vendor |-> IF IsSome(detail.vendor) THEN Unwrap(detail.vendor) ELSE <<>>]

get_serializable_result(summary, details) ==
    [packet_count |-> summary.packet_count,
     arp_count |-> summary.arp_count,
     duration_ms |-> summary.duration_ms,
     results |-> [i \in 1..Len(details) |-> serializable_item(details[i])]]

\* The names of the fields, as the serializers write them.
FIELD_IPV4 == <<"i", "p", "v", "4">>
FIELD_MAC == <<"m", "a", "c">>
FIELD_HOSTNAME == <<"h", "o", "s", "t", "n", "a", "m", "e">>
FIELD_VENDOR == <<"v", "e", "n", "d", "o", "r">>
FIELD_PACKET_COUNT == <<"p", "a", "c", "k", "e", "t", "_", "c", "o", "u", "n", "t">>
FIELD_ARP_COUNT == <<"a", "r", "p", "_", "c", "o", "u", "n", "t">>
FIELD_DURATION_MS == <<"d", "u", "r", "a", "t", "i", "o", "n", "_", "m", "s">>
FIELD_RESULTS == <<"r", "e", "s", "u", "l", "t", "s">>

\* derive(Serialize) of SerializableResultItem: its fields, in declaration order.
ITEM_FIELDS == <<FIELD_IPV4, FIELD_MAC, FIELD_HOSTNAME, FIELD_VENDOR>>

serialize_item(item) ==
    << <<FIELD_IPV4, item.ipv4>>, <<FIELD_MAC, item.mac>>,
       <<FIELD_HOSTNAME, item.hostname>>, <<FIELD_VENDOR, item.vendor>> >>

\* derive(Serialize) of SerializableGlobalResult.
serialize_global(global_result) ==
    << <<FIELD_PACKET_COUNT, global_result.packet_count>>,
       <<FIELD_ARP_COUNT, global_result.arp_count>>,
       <<FIELD_DURATION_MS, global_result.duration_ms>>,
       <<FIELD_RESULTS, [i \in 1..Len(global_result.results) |->
                        serialize_item(global_result.results[i])]>> >>

\* The text export_to_json returns: one object, the fields in order.
export_to_json_text(summary, details) ==
    [format |-> "json",
     document |-> serialize_global(get_serializable_result(summary, sort_by_key(details)))]

\* The text export_to_yaml returns: one mapping, the fields in order.
export_to_yaml_text(summary, details) ==
    [format |-> "yaml",
     document |-> serialize_global(get_serializable_result(summary, sort_by_key(details)))]

\* csv::Writer::from_writer(vec![]): nothing written, headers still to write.
csv_writer == [lines |-> <<>>, header_written |-> FALSE]

\* wtr.serialize(result): the first record serialized is preceded by the line
\* of its field names.
csv_serialize(wtr, item) ==
    LET fields == serialize_item(item)
        names == [k \in 1..Len(fields) |-> fields[k][1]]
        values == [k \in 1..Len(fields) |-> fields[k][2]]
    IN  [lines |-> (IF wtr.header_written THEN wtr.lines ELSE Append(wtr.lines, names))
                   \o <<values>>,
         header_written |-> TRUE]

\* The loop of export_to_csv from position i on.
RECURSIVE csv_loop(_, _, _)
csv_loop(results, i, wtr) ==
    IF i > Len(results) THEN wtr
    ELSE csv_loop(results, i + 1, csv_serialize(wtr, results[i]))

\* The text export_to_csv returns: the lines the writer holds.
export_to_csv_text(summary, details) ==
    LET global_result == get_serializable_result(summary, sort_by_key(details))
    IN  [format |-> "csv",
         lines |-> csv_loop(global_result.results, 1, csv_writer).lines]

export_to_json ==
    /\ json = NotRun
    /\ json' = Returned(export_to_json_text(response_summary, target_details))
    /\ UNCHANGED <<inputs, shown, default_interface, network_size, table, yaml, csv>>

export_to_yaml ==
    /\ yaml = NotRun
    /\ yaml' = Returned(export_to_yaml_text(response_summary, target_details))
    /\ UNCHANGED <<inputs, shown, default_interface, network_size, table, json, csv>>

export_to_csv ==
    /\ csv = NotRun
    /\ csv' = Returned(export_to_csv_text(response_summary, target_details))
    /\ UNCHANGED <<inputs, shown, default_interface, network_size, table, json, yaml>>

(***************************************************************************)
(* The scan results handed to the table and the exports.                   *)
(***************************************************************************)
Ipv4Pool == {<<192, 168, 1, 2>>, <<192, 168, 1, 10>>}
MacPool == {<<0, 17, 34, 51, 68, 85>>, <<222, 173, 190, 239, 0, 1>>}

HostShort == <<"n", "a", "s">>
VendorShort == <<"A", "c", "m", "e">>

\* Hostnames of the table: absent, empty, short, of the minimum width, of the
\* minimum width in characters with one two-byte character, and long.
TableHostnames ==
    {None, Some(<<>>), Some(HostShort), Some(Rep("h", HOSTNAME_MIN_WIDTH)),
     Some(Append(Rep("h", HOSTNAME_MIN_WIDTH - 1), "U+00E9")),
     Some(Rep("h", HOSTNAME_MIN_WIDTH + MaxExtra))}
TableVendors ==
    {None, Some(VendorShort), Some(Rep("v", VENDOR_MIN_WIDTH + MaxExtra - 1))}

TableTargets ==
    [ipv4 : Ipv4Pool, mac : {<<0, 17, 34, 51, 68, 85>>},
     hostname : TableHostnames, vendor : TableVendors]

SummaryTargets ==
    [ipv4 : Ipv4Pool, mac : {<<0, 17, 34, 51, 68, 85>>},
     hostname : {None, Some(HostShort)}, vendor : {None}]

\* Targets of the exports: resolved without a known vendor, or unresolved
\* with one.
ExportTargets ==
    [ipv4 : Ipv4Pool, mac : MacPool, hostname : {Some(HostShort)}, vendor : {None}]
    \cup [ipv4 : Ipv4Pool, mac : MacPool, hostname : {None}, vendor : {Some(VendorShort)}]

NoSummary == [packet_count |-> 0, arp_count |-> 0, duration_ms |-> 0]
NoOptions == [resolve_hostname |-> FALSE]

ExportSummaries ==
    {NoSummary, [packet_count |-> 7, arp_count |-> 3, duration_ms |-> 1500]}

NoOutputs ==
    /\ shown = NotRun
    /\ default_interface = NotRun
    /\ network_size = NotRun
    /\ table = NotRun
    /\ json = NotRun
    /\ yaml = NotRun
    /\ csv = NotRun


InitInterfaces ==
    /\ \E n \in 0..MaxIfaces : \E f \in [1..n -> IfaceKinds] : interfaces = Named(f)
    /\ ip_networks = <<>>
    /\ response_summary = NoSummary
    /\ target_details = <<>>
    /\ options = NoOptions
    /\ NoOutputs

NextInterfaces == show_interfaces \/ select_default

SpecInterfaces == InitInterfaces /\ [][NextInterfaces]_vars

InitNetworks ==
    /\ interfaces = <<>>
    /\ \E n \in 0..MaxNets : ip_networks \in [1..n -> NetworkPool]
    /\ response_summary = NoSummary
    /\ target_details = <<>>
    /\ options = NoOptions
    /\ NoOutputs

NextNetworks == compute_network_size

SpecNetworks == InitNetworks /\ [][NextNetworks]_vars

InitTable ==
    /\ interfaces = <<>>
    /\ ip_networks = <<>>
    /\ response_summary = [packet_count |-> 7, arp_count |-> 3, duration_ms |-> 1500]
    /\ \E n \in 0..MaxTargets : target_details \in [1..n -> TableTargets]
    /\ options \in [resolve_hostname : BOOLEAN]
    /\ NoOutputs

NextTable == display_scan_results

SpecTable == InitTable /\ [][NextTable]_vars

InitSummary ==
    /\ interfaces = <<>>
    /\ ip_networks = <<>>
    /\ response_summary \in {r \in [packet_count : 0..MaxCount, arp_count : 0..MaxCount,
                                     duration_ms : {0, 1500}] :
                                 r.arp_count <= r.packet_count}
    /\ \E n \in 0..MaxTargets : target_details \in [1..n -> SummaryTargets]
    /\ options \in [resolve_hostname : BOOLEAN]
    /\ NoOutputs

NextSummary == display_scan_results

SpecSummary == InitSummary /\ [][NextSummary]_vars

InitExport ==
    /\ interfaces = <<>>
    /\ ip_networks = <<>>
    /\ response_summary \in ExportSummaries
    /\ \E n \in 0..MaxTargets : target_details \in [1..n -> ExportTargets]
    /\ options = [resolve_hostname |-> TRUE]
    /\ NoOutputs

NextExport == export_to_json \/ export_to_yaml \/ export_to_csv \/ display_scan_results

SpecExport == InitExport /\ [][NextExport]_vars

(***************************************************************************)
(* Properties.                                                             *)
(***************************************************************************)
RECURSIVE SumSeq(_)
SumSeq(s) == IF s = <<>> THEN 0 ELSE Head(s) + SumSeq(Tail(s))

\* The five conditions of a default interface, stated on the interface's data.
Qualifies(interface) ==
    /\ interface.mac /= None
    /\ Len(interface.ips) >= 1
    /\ interface.up
    /\ ~interface.loopback
    /\ \E k \in 1..Len(interface.ips) : interface.ips[k].family = "V4"

Qualifying == {i \in 1..Len(interfaces) : Qualifies(interfaces[i])}

\* C1: select_default_interface returns the first interface, in input order,
\* that has a MAC address, has an IP, is up, is not loopback and has an IPv4
\* address; it returns nothing exactly when no interface of the list does.
C1_FirstQualifying ==
    default_interface /= NotRun =>
        /\ default_interface.kind = "returned"
        /\ IF Qualifying = {}
           THEN default_interface.value = None
           ELSE \E i \in Qualifying :
                    /\ \A j \in Qualifying : i <= j
                    /\ default_interface.value = Some(interfaces[i])

\* C1 witness: two interfaces qualify and the earlier one was returned.
C1_Witness ==
    /\ Len(interfaces) = 2
    /\ Qualifying = {1, 2}
    /\ interfaces[1] /= interfaces[2]
    /\ default_interface = Returned(Some(interfaces[1]))

\* C10: every interface select_default_interface accepts is counted as ready
\* by show_interfaces; when show_interfaces prints a default interface the
\* ready count is at least 1; and 0 <= ready count <= interface count = the
\* length of the list.
C10_DefaultImpliesReady ==
    /\ \A i \in 1..Len(interfaces) :
           is_default_candidate(interfaces[i]) => is_ready(interfaces[i])
    /\ shown /= NotRun =>
           /\ shown.kind = "returned"
           /\ shown.value.interface_count = Len(interfaces)
           /\ shown.value.ready_count >= 0
           /\ shown.value.ready_count <= shown.value.interface_count
           /\ shown.value.ready_count >= Cardinality(Qualifying)
           /\ shown.value.default_line /= None => shown.value.ready_count >= 1

\* C10 witness: a default interface is printed and the ready count also
\* includes an interface that cannot be the default one (it has no MAC).
C10_Witness ==
    /\ shown /= NotRun
    /\ Len(interfaces) = 2
    /\ interfaces[1].mac = None
    /\ shown.value.default_line = Some(interfaces[2].name)
    /\ shown.value.ready_count = 2

HasIpv6 == \E i \in 1..Len(ip_networks) : ip_networks[i].family = "V6"

\* 2^(32 - prefix) split at bit 16.
SizeLow(prefix) == IF 32 - prefix < 16 THEN 2^(32 - prefix) ELSE 0
SizeHigh(prefix) == IF 32 - prefix < 16 THEN 0 ELSE 2^(16 - prefix)

\* The sum of the address counts of a list of IPv4 networks, as limbs.
ExactSum(list) ==
    LET low == SumSeq([i \in 1..Len(list) |-> SizeLow(list[i].prefix)])
        high == SumSeq([i \in 1..Len(list) |-> SizeHigh(list[i].prefix)])
                + (low \div 65536)
    IN  [k \in 1..8 |-> CASE k = 1 -> low % 65536
                          [] k = 2 -> high % 65536
                          [] k = 3 -> high \div 65536
                          [] OTHER -> 0]

\* C3: for a list without an IPv6 network (the empty list included) compute_network_size
\* returns the arithmetic sum of the networks' IPv4 address counts; the
\* 128-bit total does not wrap.
C3_ExactSum ==
    (network_size /= NotRun /\ ~HasIpv6) =>
        network_size = Returned(ExactSum(ip_networks))

\* C3 witness: three networks whose sizes add up to more than 2^32.
C3_Witness ==
    /\ Len(ip_networks) = 3
    /\ ~HasIpv6
    /\ network_size.kind = "returned"
    /\ network_size.value[3] = 1
    /\ network_size.value[1] = 4

\* C4: for a list with an IPv6 network at any position compute_network_size
\* ends the process with status 1 and the diagnostic, and returns no size.
C4_Ipv6IsFatal ==
    (network_size /= NotRun /\ HasIpv6) =>
        network_size = Exited(1, IPV6_DIAGNOSTIC)

\* C4 witness: the IPv6 network comes last, after two IPv4 networks, and the
\* process exited.
C4_Witness ==
    /\ Len(ip_networks) = 3
    /\ ip_networks[1].family = "V4"
    /\ ip_networks[2].family = "V4"
    /\ ip_networks[3].family = "V6"
    /\ network_size.kind = "exited"

(***************************************************************************)
(* Properties of the table.                                                *)
(***************************************************************************)
\* A cell shows a text: the text, whole, followed by nothing but spaces.
Shows(cell, text) ==
    /\ Len(cell) >= Len(text)
    /\ cell = text \o [k \in 1..(Len(cell) - Len(text)) |-> " "]

Orderings(n) == Permutations(1..n)

MaxOf(S) == CHOOSE m \in S : \A x \in S : x <= m

\* C5: the hostname cell of a target shows the hostname when there is one,
\* "(disabled)" when there is none and resolve_hostname is false (and only
\* then, for a target without hostname), the empty text when there is none and
\* resolve_hostname is true; the vendor cell shows the vendor or the empty
\* text, never "(disabled)".
C5_HostnameAndVendorCells ==
    table /= NotRun =>
        LET rows == table.value.rows
        IN  /\ Len(rows) = Len(target_details)
            /\ \E p \in Orderings(Len(rows)) : \A i \in 1..Len(rows) :
                   LET t == target_details[p[i]]
                       r == rows[i]
                   IN  /\ Shows(r.ipv4, Ipv4Text(t.ipv4))
                       /\ t.hostname /= None => Shows(r.hostname, t.hostname[1])
                       /\ (t.hostname = None /\ ~options.resolve_hostname)
                              => Shows(r.hostname, TEXT_DISABLED)
                       /\ (t.hostname = None /\ options.resolve_hostname)
                              => Shows(r.hostname, <<>>)
                       /\ t.hostname = None
                              => (Shows(r.hostname, TEXT_DISABLED) <=> ~options.resolve_hostname)
                       /\ t.vendor /= None => Shows(r.vendor, t.vendor[1])
                       /\ t.vendor = None => Shows(r.vendor, <<>>)
                       /\ ~Shows(r.vendor, TEXT_DISABLED)

\* C5 witness: resolution is off and neither of two targets has a hostname; one
\* has a vendor.  Both rows show "(disabled)" as hostname; the vendor cells
\* show the vendor and the empty text.
C5_Witness ==
    /\ table /= NotRun
    /\ ~options.resolve_hostname
    /\ Len(target_details) = 2
    /\ target_details[1].hostname = None
    /\ target_details[2].hostname = None
    /\ target_details[1].vendor = None
    /\ target_details[2].vendor = Some(VendorShort)
    /\ \A i \in 1..2 : Shows(table.value.rows[i].hostname, TEXT_DISABLED)
    /\ \E i \in 1..2 : Shows(table.value.rows[i].vendor, VendorShort)
    /\ \E i \in 1..2 : Shows(table.value.rows[i].vendor, <<>>)

HostnameLengths ==
    {ByteLen(target_details[i].hostname[1]) :
        i \in {j \in 1..Len(target_details) : target_details[j].hostname /= None}}
VendorLengths ==
    {ByteLen(target_details[i].vendor[1]) :
        i \in {j \in 1..Len(target_details) : target_details[j].vendor /= None}}

\* C6: the hostname column is max(15, longest hostname) wide and the vendor
\* column max(15, longest vendor); the header, the separator and every row
\* have these widths, every cell holds its whole text, and the header and
\* the separator are printed exactly when there is a target.
C6_ColumnWidths ==
    table /= NotRun =>
        LET out == table.value
            h == MaxOf(HostnameLengths \cup {15})
            v == MaxOf(VendorLengths \cup {15})
        IN  /\ (out.header /= None) <=> (target_details /= <<>>)
            /\ (out.separator /= None) <=> (target_details /= <<>>)
            /\ out.header /= None =>
                   /\ Len(out.header[1].hostname) = h
                   /\ Len(out.header[1].vendor) = v
                   /\ Shows(out.header[1].hostname, TEXT_HOSTNAME)
                   /\ Shows(out.header[1].vendor, TEXT_VENDOR)
            /\ out.separator /= None =>
                   /\ out.separator[1].hostname = [k \in 1..h |-> "-"]
                   /\ out.separator[1].vendor = [k \in 1..v |-> "-"]
            /\ Len(out.rows) = Len(target_details)
            /\ \A i \in 1..Len(out.rows) :
                   /\ Len(out.rows[i].hostname) = h
                   /\ Len(out.rows[i].vendor) = v
            /\ \E p \in Orderings(Len(out.rows)) : \A i \in 1..Len(out.rows) :
                   LET t == target_details[p[i]]
                   IN  /\ Shows(out.rows[i].hostname,
                                IF t.hostname /= None THEN t.hostname[1]
                                ELSE IF options.resolve_hostname THEN <<>>
                                ELSE TEXT_DISABLED)
                       /\ Shows(out.rows[i].vendor,
                                IF t.vendor /= None THEN t.vendor[1] ELSE <<>>)

\* C6 witness: one target with a hostname of 20 characters; the header and the
\* row are 20 wide in the hostname column and 15 in the vendor column.
C6_Witness ==
    /\ table /= NotRun
    /\ Len(target_details) = 1
    /\ target_details[1].hostname /= None
    /\ Len(target_details[1].hostname[1]) = 20
    /\ target_details[1].vendor = None
    /\ Len(table.value.header[1].hostname) = 20
    /\ Len(table.value.rows[1].hostname) = 20
    /\ Len(table.value.rows[1].vendor) = 15

\* C7: each of the three counters of the summary lines has its own phrase,
\* chosen among three forms by whether the counter is 0, 1 or more; the host
\* counter is the length of the target list.
C7_Pluralization ==
    table /= NotRun =>
        LET out == table.value
            n == Len(target_details)
            packets == response_summary.packet_count
            arps == response_summary.arp_count
        IN  /\ n = 0 => out.hosts = "no hosts found"
            /\ n = 1 => out.hosts = "1 host found"
            /\ n > 1 => out.hosts = ToString(n) \o " hosts found"
            /\ packets = 0 => out.packets = "No packets received, "
            /\ packets = 1 => out.packets = "1 packet received, "
            /\ packets > 1 => out.packets = ToString(packets) \o " packets received, "
            /\ arps = 0 => out.arp = "no ARP packets filtered"
            /\ arps = 1 => out.arp = "1 ARP packet filtered"
            /\ arps > 1 => out.arp = ToString(arps) \o " ARP packets filtered"

\* C7 witness: the same target twice, two packets, one ARP packet: plural,
\* plural and singular in one summary.
C7_Witness ==
    /\ table /= NotRun
    /\ Len(target_details) = 2
    /\ target_details[1] = target_details[2]
    /\ response_summary.packet_count = 2
    /\ response_summary.arp_count = 1
    /\ table.value.hosts = "2 hosts found"
    /\ table.value.packets = "2 packets received, "
    /\ table.value.arp = "1 ARP packet filtered"

(***************************************************************************)
(* Properties of the exports.                                              *)
(***************************************************************************)
OrEmpty(option) == IF option = None THEN <<>> ELSE option[1]

\* The value of a field of a decoded object or mapping.
Keys(document) == {document[k][1] : k \in 1..Len(document)}
Field(document, key) ==
    document[CHOOSE k \in 1..Len(document) : document[k][1] = key][2]

RECURSIVE StripTrailing(_)
StripTrailing(text) ==
    IF text /= <<>> /\ text[Len(text)] = " "
    THEN StripTrailing(SubSeq(text, 1, Len(text) - 1))
    ELSE text

\* The targets an output lists, in its order, each as <<IPv4, MAC, hostname,
\* vendor>> texts.
DocumentListing(out) ==
    LET results == Field(out.document, FIELD_RESULTS)
    IN  [i \in 1..Len(results) |->
            <<Field(results[i], FIELD_IPV4), Field(results[i], FIELD_MAC),
              Field(results[i], FIELD_HOSTNAME), Field(results[i], FIELD_VENDOR)>>]
CsvListing(out) ==
    IF out.lines = <<>> THEN <<>>
    ELSE [i \in 1..(Len(out.lines) - 1) |-> out.lines[i + 1]]
TableListing(out) ==
    [i \in 1..Len(out.rows) |->
        <<StripTrailing(out.rows[i].ipv4), out.rows[i].mac,
          StripTrailing(out.rows[i].hostname), StripTrailing(out.rows[i].vendor)>>]

\* How an export and the table present one target.
ExportEntry(t) ==
    <<Ipv4Text(t.ipv4), MacText(t.mac), OrEmpty(t.hostname), OrEmpty(t.vendor)>>
TableEntry(t) ==
    <<Ipv4Text(t.ipv4), MacText(t.mac),
      IF t.hostname /= None THEN t.hostname[1]
      ELSE IF options.resolve_hostname THEN <<>> ELSE TEXT_DISABLED,
      OrEmpty(t.vendor)>>

Ipv4Column(listing) == [i \in 1..Len(listing) |-> listing[i][1]]

\* a comes before b in the order of IPv4 addresses.
Before(a, b) == \E k \in 1..4 : a[k] < b[k] /\ \A m \in 1..(k - 1) : a[m] = b[m]

Reordered(q) == [i \in 1..Len(target_details) |-> target_details[q[i]]]

\* p arranges the input by ascending IPv4 address, equal addresses in input order.
AscendingStable(p) ==
    \A i, j \in 1..Len(target_details) :
        i < j => /\ ~Before(target_details[p[j]].ipv4, target_details[p[i]].ipv4)
                 /\ target_details[p[i]].ipv4 = target_details[p[j]].ipv4 => p[i] < p[j]

\* Every output produced so far lists the targets in the arrangement p.
ListedAs(p) ==
    LET n == Len(target_details)
    IN  /\ json /= NotRun =>
               DocumentListing(json.value) = [i \in 1..n |-> ExportEntry(target_details[p[i]])]
        /\ yaml /= NotRun =>
               DocumentListing(yaml.value) = [i \in 1..n |-> ExportEntry(target_details[p[i]])]
        /\ csv /= NotRun =>
               CsvListing(csv.value) = [i \in 1..n |-> ExportEntry(target_details[p[i]])]
        /\ table /= NotRun =>
               TableListing(table.value) = [i \in 1..n |-> TableEntry(target_details[p[i]])]

\* Called on the reordered list, every operation already called lists the same
\* (with Whole), or the same IPv4 addresses (without), as it did.
SameAfterReordering(q, Whole(_)) ==
    /\ json /= NotRun =>
           Whole(DocumentListing(export_to_json_text(response_summary, Reordered(q))))
               = Whole(DocumentListing(json.value))
    /\ yaml /= NotRun =>
           Whole(DocumentListing(export_to_yaml_text(response_summary, Reordered(q))))
               = Whole(DocumentListing(yaml.value))
    /\ csv /= NotRun =>
           Whole(CsvListing(export_to_csv_text(response_summary, Reordered(q))))
               = Whole(CsvListing(csv.value))
    /\ table /= NotRun =>
           Whole(TableListing(display_scan_results_output(response_summary, Reordered(q), options)))
               = Whole(TableListing(table.value))

Identity(listing) == listing

\* No two targets that differ have the same IPv4 address.
TiesAreDuplicates ==
    \A i, j \in 1..Len(target_details) :
        target_details[i].ipv4 = target_details[j].ipv4 => target_details[i] = target_details[j]

\* C2 as stated: the exports and the table list the targets in one ascending
\* IPv4 order that is the same for every reordering of the input list, also
\* when two targets that differ share an IPv4 address.
C2_OrderIndependentOfInput ==
    /\ \E p \in Orderings(Len(target_details)) : AscendingStable(p) /\ ListedAs(p)
    /\ \A q \in Orderings(Len(target_details)) : SameAfterReordering(q, Identity)

\* C2 amended: the exports and the table list the targets in the same order,
\* ascending by IPv4 address with targets of equal address in input order;
\* for every reordering of the input list the IPv4 addresses come out in the
\* same sequence, and the whole listing is the same when no two targets that
\* differ share an IPv4 address.
C2_AscendingStableOrder ==
    /\ \E p \in Orderings(Len(target_details)) : AscendingStable(p) /\ ListedAs(p)
    /\ \A q \in Orderings(Len(target_details)) :
           /\ SameAfterReordering(q, Ipv4Column)
           /\ TiesAreDuplicates => SameAfterReordering(q, Identity)

\* C2 witness: two targets share an IPv4 address and differ in their MAC; the
\* three exports and the table were produced and list them in input order.
C2_Witness ==
    /\ Len(target_details) = 2
    /\ target_details[1].ipv4 = target_details[2].ipv4
    /\ target_details[1].mac = <<222, 173, 190, 239, 0, 1>>
    /\ target_details[2].mac = <<0, 17, 34, 51, 68, 85>>
    /\ json /= NotRun /\ yaml /= NotRun /\ csv /= NotRun /\ table /= NotRun
    /\ DocumentListing(json.value)[1][2] = MacText(target_details[1].mac)
    /\ TableListing(table.value)[1][2] = MacText(target_details[1].mac)

SUMMARY_FIELDS == {FIELD_PACKET_COUNT, FIELD_ARP_COUNT, FIELD_DURATION_MS}

LineFields(out) == UNION {{out.lines[i][k] : k \in 1..Len(out.lines[i])} : i \in 1..Len(out.lines)}

\* C8: the CSV export is a header row of the record field names followed by
\* one row per target, for a list of any length, and holds no summary field;
\* the JSON and YAML exports hold the three summary fields.
C8_CsvHeaderThenRows ==
    /\ csv /= NotRun =>
           /\ Len(csv.value.lines) = 1 + Len(target_details)
           /\ csv.value.lines[1] = <<FIELD_IPV4, FIELD_MAC, FIELD_HOSTNAME, FIELD_VENDOR>>
           /\ LineFields(csv.value) \cap SUMMARY_FIELDS = {}
    /\ json /= NotRun => SUMMARY_FIELDS \subseteq Keys(json.value.document)
    /\ yaml /= NotRun => SUMMARY_FIELDS \subseteq Keys(yaml.value.document)

\* The same for the lists that have a target; for the empty list the CSV
\* export is the empty text.
C8_ExceptEmptyList ==
    /\ csv /= NotRun =>
           /\ target_details = <<>> => csv.value.lines = <<>>
           /\ target_details /= <<>> =>
                  /\ Len(csv.value.lines) = 1 + Len(target_details)
                  /\ csv.value.lines[1] = <<FIELD_IPV4, FIELD_MAC, FIELD_HOSTNAME, FIELD_VENDOR>>
           /\ LineFields(csv.value) \cap SUMMARY_FIELDS = {}
    /\ json /= NotRun => SUMMARY_FIELDS \subseteq Keys(json.value.document)
    /\ yaml /= NotRun => SUMMARY_FIELDS \subseteq Keys(yaml.value.document)

DigitValue(c) == CHOOSE d \in 0..15 : DigitChar(d) = c

\* A text cut at every separator.
RECURSIVE Split(_, _, _)
Split(text, separator, part) ==
    IF text = <<>> THEN <<part>>
    ELSE IF Head(text) = separator THEN <<part>> \o Split(Tail(text), separator, <<>>)
    ELSE Split(Tail(text), separator, Append(part, Head(text)))

RECURSIVE ParseNumber(_, _, _)
ParseNumber(digits, base, value) ==
    IF digits = <<>> THEN value
    ELSE ParseNumber(Tail(digits), base, value * base + DigitValue(Head(digits)))

\* The address a dotted-decimal text denotes, and the MAC address a text of
\* hex groups denotes.
ParseIpv4(text) ==
    LET parts == Split(text, ".", <<>>)
    IN  [k \in 1..Len(parts) |-> ParseNumber(parts[k], 10, 0)]
ParseMac(text) ==
    LET parts == Split(text, ":", <<>>)
    IN  [k \in 1..Len(parts) |-> ParseNumber(parts[k], 16, 0)]

\* A document decodes to the summary and to one canonical record per target.
DecodesToInput(document) ==
    LET results == Field(document, FIELD_RESULTS)
    IN  /\ Keys(document) = SUMMARY_FIELDS \cup {FIELD_RESULTS}
        /\ Len(document) = 4
        /\ Field(document, FIELD_PACKET_COUNT) = response_summary.packet_count
        /\ Field(document, FIELD_ARP_COUNT) = response_summary.arp_count
        /\ Field(document, FIELD_DURATION_MS) = response_summary.duration_ms
        /\ Len(results) = Len(target_details)
        /\ \E p \in Orderings(Len(results)) : \A i \in 1..Len(results) :
               LET t == target_details[p[i]]
               IN  /\ Keys(results[i]) = {FIELD_IPV4, FIELD_MAC, FIELD_HOSTNAME, FIELD_VENDOR}
                   /\ Len(results[i]) = 4
                   /\ ParseIpv4(Field(results[i], FIELD_IPV4)) = t.ipv4
                   /\ ParseMac(Field(results[i], FIELD_MAC)) = t.mac
                   /\ Field(results[i], FIELD_HOSTNAME) = OrEmpty(t.hostname)
                   /\ Field(results[i], FIELD_VENDOR) = OrEmpty(t.vendor)

\* C9: the JSON and YAML exports hold one canonical record per target,
\* duplicates included (IPv4 and MAC as text, hostname and vendor or the empty
\* string) and the three counters of the summary unchanged, so that decoding
\* them gives the records and the counters of the input.
C9_RoundTrip ==
    /\ json /= NotRun => DecodesToInput(json.value.document)
    /\ yaml /= NotRun => DecodesToInput(yaml.value.document)

\* C9 witness: the same target twice, without hostname and with a vendor, and
\* a summary with three different counters; both exports were produced with
\* two records.
C9_Witness ==
    /\ json /= NotRun
    /\ yaml /= NotRun
    /\ Len(target_details) = 2
    /\ target_details[1] = target_details[2]
    /\ target_details[1].hostname = None
    /\ target_details[1].vendor /= None
    /\ response_summary.packet_count = 7
    /\ Len(Field(json.value.document, FIELD_RESULTS)) = 2
    /\ Len(Field(yaml.value.document, FIELD_RESULTS)) = 2

=============================================================================
